---- MODULE Spec2Model ----
(***************************************************************************)
(* Model of the type-state SELECT builder of squeal-builder.               *)
(*                                                                         *)
(* src/src/select/mod.rs is the module tree the crate compiles: Select,    *)
(* SelectColumn (a private intermediate), PushValue, PushColumn,           *)
(* FromTable, PushFromTable, PushWhereClause.  One builder chain is one    *)
(* behaviour: `stage` is the type of the value the caller holds, `command` *)
(* its String, `arguments` its argument collection.  Every method is an    *)
(* operator that returns the outcome of the call (next stage or error,     *)
(* text, collection), and one action applies it.                           *)
(*                                                                         *)
(* src/src/select/columns.rs declares a second SelectColumn that mod.rs    *)
(* never mounts (`mod macros;` is its only submodule).  It is modelled by  *)
(* the operators Columns_* and checked under SpecColumns, apart from the   *)
(* compiled chain of Spec.                                                 *)
(*                                                                         *)
(* Text is a TLA+ string, so Len(command) is the byte length of the ASCII  *)
(* text the builder writes.                                                *)
(***************************************************************************)
EXTENDS Integers, Sequences, FiniteSets, TLC

(***************************************************************************)
(* Bounds of the model.                                                    *)
(***************************************************************************)
\* calls in one chain
MaxCalls == 5
\* elements in a sequence handed to columns(..) / values(..)
MaxSeqLen == 3
\* values already in the collection handed to select(..): none, one, or this
\* many (the next bind then writes a two-digit placeholder)
MaxInitArgs == 9
\* width of usize in the model (bits); isize::MAX = 2^(w-1) - 1
UsizeBits == 8
\* renderings of one finished command
MaxRenders == 2

UsizeMod == 2 ^ UsizeBits
IsizeMax == 2 ^ (UsizeBits - 1) - 1

(***************************************************************************)
(* Inputs the caller may pass.                                             *)
(***************************************************************************)
ColumnNames == {"x", "yz"}
AliasNames == {"c"}
TableNames == {"t", "u"}
\* Columns(..) and Tables(..) static fragments (macros.rs: comma separated literals)
ColumnFragments == {"p, q"}
TableFragments == {"r AS s, v"}
Values == {42, 7}
\* values a collection may hold before the builder is created
EarlierValues == {99}
\* caller-defined errors of ArgumentBuffer::push
ArgErrors == {"Full", "Denied"}

Keywords == {"SELECT", "SELECT ALL", "SELECT DISTINCT"}

SeqsUpTo(S, n) == UNION {[1..k -> S] : k \in 0..n}

(***************************************************************************)
(* Errors (crate::error::SqlError) and process-level outcomes.             *)
(***************************************************************************)
NoError == [kind |-> "None", e |-> "-"]
OutOfMemory == [kind |-> "OutOfMemory", e |-> "-"]
ArgumentNotFound == [kind |-> "ArgumentNotFound", e |-> "-"]
Argument(e) == [kind |-> "Argument", e |-> e]
\* arithmetic overflow panic of a build with overflow checks
Panic == [kind |-> "Panic", e |-> "-"]
\* handle_alloc_error of an unchecked String growth
Abort == [kind |-> "Abort", e |-> "-"]

(***************************************************************************)
(* crate::format_num::format_u32_base10: decimal text of an unsigned       *)
(* integer, most significant digit first, no leading zeros.                *)
(***************************************************************************)
Digit(d) ==
    CASE d = 0 -> "0" [] d = 1 -> "1" [] d = 2 -> "2" [] d = 3 -> "3"
      [] d = 4 -> "4" [] d = 5 -> "5" [] d = 6 -> "6" [] d = 7 -> "7"
      [] d = 8 -> "8" [] d = 9 -> "9"

RECURSIVE format_u32_base10(_)
format_u32_base10(n) ==
    IF n < 10 THEN Digit(n)
    ELSE format_u32_base10(n \div 10) \o Digit(n % 10)

(***************************************************************************)
(* ArgumentBuffer: push appends one value or rejects it with the caller's  *)
(* error; count is the number of values held.                              *)
(***************************************************************************)
ArgPush(arguments, value) == Append(arguments, value)

ArgCount(arguments) == Len(arguments)

(***************************************************************************)
(* String::try_reserve(additional): fails with CapacityOverflow when the   *)
(* required capacity exceeds isize::MAX and with AllocError when the       *)
(* allocator refuses (alloc = FALSE); `?` turns either into OutOfMemory.   *)
(***************************************************************************)
try_reserve(command, additional, alloc) ==
    /\ Len(command) + additional <= IsizeMax
    /\ alloc

(***************************************************************************)
(* Outcome of one call: the stage returned (or "Failed"), the text and the *)
(* collection as the call leaves them, the error, the placeholder numbers  *)
(* written, and the size passed to try_reserve (-1: no reservation made).  *)
(***************************************************************************)
Outcome(st, cmd, args, er, wr, res) ==
    [stage |-> st, command |-> cmd, arguments |-> args, err |-> er,
     written |-> wr, reserved |-> res]

\* map_intermediate_sql!(Stage, self): same command and arguments, new type
Retag(st, cmd, args) == Outcome(st, cmd, args, NoError, <<>>, -1)

Fail(cmd, args, er, wr, res) == Outcome("Failed", cmd, args, er, wr, res)

\* the process dies in handle_alloc_error: nothing is returned
Aborted(cmd, args, wr, res) == Outcome("Aborted", cmd, args, Abort, wr, res)

(***************************************************************************)
(* mod.rs: SelectColumn, the intermediate the Select methods map into.     *)
(***************************************************************************)
SelectColumn_column(command, arguments, column, alloc) ==
    LET n == Len(column) + 1 IN
    IF ~try_reserve(command, n, alloc)
    THEN Fail(command, arguments, OutOfMemory, <<>>, n)
    ELSE Outcome("PushColumn", (command \o " ") \o column, arguments,
                 NoError, <<>>, n)

\* SelectColumn::column_as stopping after the AS keyword
SelectColumn_column_as_NoAlias(command, arguments, column, alias, alloc) ==
    LET n == (Len(column) + Len(alias)) + 5 IN
    IF ~try_reserve(command, n, alloc)
    THEN Fail(command, arguments, OutOfMemory, <<>>, n)
    ELSE Outcome("PushColumn", ((command \o " ") \o column) \o " AS",
                 arguments, NoError, <<>>, n)

SelectColumn_column_as(command, arguments, column, alias, alloc) ==
    LET n == Len(column) + Len(alias) + 5 IN
    IF ~try_reserve(command, n, alloc)
    THEN Fail(command, arguments, OutOfMemory, <<>>, n)
    ELSE Outcome("PushColumn",
                 (((command \o " ") \o column) \o " AS ") \o alias,
                 arguments, NoError, <<>>, n)

\* columns.iter().map(|s| s.len() + 2).sum::<usize>()
RECURSIVE SumLenPlus2(_)
SumLenPlus2(columns) ==
    IF columns = <<>> THEN 0
    ELSE (Len(Head(columns)) + 2 + SumLenPlus2(Tail(columns))) % UsizeMod

\* for column in &columns[1..] { push_str(", "); push_str(column) }
RECURSIVE PushRest(_, _)
PushRest(command, rest) ==
    IF rest = <<>> THEN command
    ELSE PushRest((command \o ", ") \o Head(rest), Tail(rest))

\* SelectColumn::columns writing the first column through the loop of the rest
SelectColumn_columns_LeadingSeparator(command, arguments, columns, alloc, overflow_checks) ==
    LET sum == SumLenPlus2(columns)
        total_length == (sum - 1 + UsizeMod) % UsizeMod
    IN  IF sum = 0 /\ overflow_checks
        THEN Outcome("Aborted", command, arguments, Panic, <<>>, -1)
        ELSE IF ~try_reserve(command, total_length, alloc)
        THEN Fail(command, arguments, OutOfMemory, <<>>, total_length)
        ELSE IF columns = <<>>
        THEN Fail(command, arguments, ArgumentNotFound, <<>>, total_length)
        ELSE Outcome("PushColumn", PushRest(command, columns),
                     arguments, NoError, <<>>, total_length)

\* `sum - 1` on usize: a build with overflow checks panics on 0 - 1, a build
\* without them wraps to usize::MAX.
SelectColumn_columns(command, arguments, columns, alloc, overflow_checks) ==
    LET sum == SumLenPlus2(columns)
        total_length == (sum - 1 + UsizeMod) % UsizeMod
    IN  IF sum = 0 /\ overflow_checks
        THEN Outcome("Aborted", command, arguments, Panic, <<>>, -1)
        ELSE IF ~try_reserve(command, total_length, alloc)
        THEN Fail(command, arguments, OutOfMemory, <<>>, total_length)
        ELSE IF columns = <<>>
        THEN Fail(command, arguments, ArgumentNotFound, <<>>, total_length)
        ELSE Outcome("PushColumn",
                     PushRest((command \o " ") \o Head(columns), Tail(columns)),
                     arguments, NoError, <<>>, total_length)

\* SelectColumn::static_columns writing the FROM keyword after the fragment
SelectColumn_static_columns_WritesFrom(command, arguments, columns, alloc, grow) ==
    LET n == Len(columns) IN
    IF ~try_reserve(command, n, alloc)
    THEN Fail(command, arguments, OutOfMemory, <<>>, n)
    ELSE IF ~grow THEN Aborted(command, arguments, <<>>, n)
    ELSE Outcome("FromTable", ((command \o " ") \o columns) \o " FROM",
                 arguments, NoError, <<>>, n)

\* reserves columns.0.len() and appends one byte more: the unchecked pushes
\* may have to grow the String themselves (grow = FALSE: that growth aborts)
SelectColumn_static_columns(command, arguments, columns, alloc, grow) ==
    LET n == Len(columns) IN
    IF ~try_reserve(command, n, alloc)
    THEN Fail(command, arguments, OutOfMemory, <<>>, n)
    ELSE IF ~grow THEN Aborted(command, arguments, <<>>, n)
    ELSE Outcome("FromTable", (command \o " ") \o columns, arguments,
                 NoError, <<>>, n)

(***************************************************************************)
(* mod.rs: Select.                                                         *)
(***************************************************************************)
Select_new(arguments) == Retag("Select", "SELECT", arguments)

Select_all(arguments) == Retag("Select", "SELECT ALL", arguments)

Select_distinct(arguments) == Retag("Select", "SELECT DISTINCT", arguments)

Select_column(command, arguments, column, alloc) ==
    SelectColumn_column(command, arguments, column, alloc)

Select_column_as(command, arguments, column, alias, alloc) ==
    SelectColumn_column_as(command, arguments, column, alias, alloc)

Select_columns(command, arguments, columns, alloc, overflow_checks) ==
    SelectColumn_columns(command, arguments, columns, alloc, overflow_checks)

Select_static_columns(command, arguments, columns, alloc, grow) ==
    SelectColumn_static_columns(command, arguments, columns, alloc, grow)

\* BindValue writing the placeholder before it looks at the result of push
BindValue_WriteThenFail(next, sep, command, arguments, value, push, grow) ==
    LET n == ArgCount(arguments) + 1
        text == (command \o sep) \o format_u32_base10(n)
    IN  IF push # "ok"
        THEN Fail(text, arguments, Argument(push), <<>>, -1)
        ELSE IF ~grow THEN Aborted(command, ArgPush(arguments, value), <<>>, -1)
        ELSE Outcome(next, text, ArgPush(arguments, value), NoError, <<n>>, -1)

\* BindValue with the count read before the push instead of after it
BindValue_CountBeforePush(next, sep, command, arguments, value, push, grow) ==
    IF push # "ok"
    THEN Fail(command, arguments, Argument(push), <<>>, -1)
    ELSE LET pushed == ArgPush(arguments, value)
             n == ArgCount(arguments)
         IN  IF ~grow THEN Aborted(command, pushed, <<>>, -1)
             ELSE Outcome(next, (command \o sep) \o format_u32_base10(n),
                          pushed, NoError, <<n>>, -1)

\* One bound value: push, then the separator and "$", then the decimal count.
\* push is "ok" or the error the collection rejects with; grow = FALSE when
\* an unchecked push_str finds no memory and the process aborts.
BindValue(next, sep, command, arguments, value, push, grow) ==
    IF push # "ok"
    THEN Fail(command, arguments, Argument(push), <<>>, -1)
    ELSE LET pushed == ArgPush(arguments, value)
             n == ArgCount(pushed)
         IN  IF ~grow THEN Aborted(command, pushed, <<>>, -1)
             ELSE Outcome(next, (command \o sep) \o format_u32_base10(n),
                          pushed, NoError, <<n>>, -1)

\* Select::value pushing the value twice
Select_value_PushTwice(command, arguments, value, push, grow) ==
    BindValue("PushValue", " $", command, ArgPush(arguments, value), value,
              push, grow)

Select_value(command, arguments, value, push, grow) ==
    BindValue("PushValue", " $", command, arguments, value, push, grow)

\* The loop of Select::values over the elements after the first.  rejectAt is
\* the position (in the whole sequence) of the push the collection rejects, 0
\* when it accepts all; abortAt the position of the element whose unchecked
\* push_str finds no memory, 0 for none; i is the position of Head(rest).
RECURSIVE ValuesRest(_, _, _, _, _, _, _, _)
ValuesRest(command, arguments, wr, rest, i, rejectAt, e, abortAt) ==
    IF rest = <<>>
    THEN Outcome("SqlCommand", command, arguments, NoError, wr, -1)
    ELSE IF i = rejectAt
    THEN Fail(command, arguments, Argument(e), wr, -1)
    ELSE LET pushed == ArgPush(arguments, Head(rest))
             n == ArgCount(pushed)
         IN  IF i = abortAt THEN Aborted(command, pushed, wr, -1)
             ELSE ValuesRest((command \o ", $") \o format_u32_base10(n),
                             pushed, Append(wr, n), Tail(rest), i + 1,
                             rejectAt, e, abortAt)

\* Select::values binding the first element only
Select_values_FirstOnly(command, arguments, values, rejectAt, e, abortAt) ==
    IF values = <<>>
    THEN Fail(command, arguments, ArgumentNotFound, <<>>, -1)
    ELSE IF rejectAt = 1
    THEN Fail(command, arguments, Argument(e), <<>>, -1)
    ELSE LET pushed == ArgPush(arguments, Head(values))
             n == ArgCount(pushed)
         IN  IF abortAt = 1 THEN Aborted(command, pushed, <<>>, -1)
             ELSE Outcome("SqlCommand",
                          (command \o " $") \o format_u32_base10(n), pushed,
                          NoError, <<n>>, -1)

\* Select::values undoing its pushes and placeholders when a push is rejected
Select_values_RollsBack(command, arguments, values, rejectAt, e, abortAt) ==
    IF values = <<>>
    THEN Fail(command, arguments, ArgumentNotFound, <<>>, -1)
    ELSE IF rejectAt # 0 /\ (abortAt = 0 \/ rejectAt <= abortAt)
    THEN Fail(command, arguments, Argument(e), <<>>, -1)
    ELSE LET pushed == ArgPush(arguments, Head(values))
             n == ArgCount(pushed)
         IN  IF abortAt = 1 THEN Aborted(command, pushed, <<>>, -1)
             ELSE ValuesRest((command \o " $") \o format_u32_base10(n),
                             pushed, <<n>>, Tail(values), 2, rejectAt, e,
                             abortAt)

\* Select::values finishing the command when there is no value at all
Select_values_EmptyAccepted(command, arguments, values, rejectAt, e, abortAt) ==
    IF values = <<>>
    THEN Outcome("SqlCommand", command, arguments, NoError, <<>>, -1)
    ELSE IF rejectAt = 1
    THEN Fail(command, arguments, Argument(e), <<>>, -1)
    ELSE LET pushed == ArgPush(arguments, Head(values))
             n == ArgCount(pushed)
         IN  IF abortAt = 1 THEN Aborted(command, pushed, <<>>, -1)
             ELSE ValuesRest((command \o " $") \o format_u32_base10(n),
                             pushed, <<n>>, Tail(values), 2, rejectAt, e,
                             abortAt)

Select_values(command, arguments, values, rejectAt, e, abortAt) ==
    IF values = <<>>
    THEN Fail(command, arguments, ArgumentNotFound, <<>>, -1)
    ELSE IF rejectAt = 1
    THEN Fail(command, arguments, Argument(e), <<>>, -1)
    ELSE LET pushed == ArgPush(arguments, Head(values))
             n == ArgCount(pushed)
         IN  IF abortAt = 1 THEN Aborted(command, pushed, <<>>, -1)
             ELSE ValuesRest((command \o " $") \o format_u32_base10(n),
                             pushed, <<n>>, Tail(values), 2, rejectAt, e,
                             abortAt)

(***************************************************************************)
(* mod.rs: PushValue.                                                      *)
(***************************************************************************)
\* PushValue::value with the separator of Select::value
PushValue_value_FirstSeparator(command, arguments, value, push, grow) ==
    BindValue("PushValue", " $", command, arguments, value, push, grow)

PushValue_value(command, arguments, value, push, grow) ==
    BindValue("PushValue", ", $", command, arguments, value, push, grow)

\* PushValue::end handing the value list over to the FROM stage
PushValue_end_ToFromTable(command, arguments) == Retag("FromTable", command, arguments)

PushValue_end(command, arguments) == Retag("SqlCommand", command, arguments)

(***************************************************************************)
(* mod.rs: FromTable.                                                      *)
(***************************************************************************)
\* FromTable::from_table without the FROM keyword
FromTable_from_table_NoKeyword(command, arguments, table, alloc) ==
    LET n == Len(table) + 6 IN
    IF ~try_reserve(command, n, alloc)
    THEN Fail(command, arguments, OutOfMemory, <<>>, n)
    ELSE Outcome("PushFromTable", (command \o " ") \o table, arguments,
                 NoError, <<>>, n)

FromTable_from_table(command, arguments, table, alloc) ==
    LET n == Len(table) + 6 IN
    IF ~try_reserve(command, n, alloc)
    THEN Fail(command, arguments, OutOfMemory, <<>>, n)
    ELSE Outcome("PushFromTable", (command \o " FROM ") \o table, arguments,
                 NoError, <<>>, n)

FromTable_static_from_tables(command, arguments, tables, alloc) ==
    LET n == Len(tables) + 6 IN
    IF ~try_reserve(command, n, alloc)
    THEN Fail(command, arguments, OutOfMemory, <<>>, n)
    ELSE Outcome("PushFromTable", (command \o " FROM ") \o tables, arguments,
                 NoError, <<>>, n)

FromTable_end(command, arguments) == Retag("SqlCommand", command, arguments)

(***************************************************************************)
(* mod.rs: PushColumn.                                                     *)
(***************************************************************************)
\* PushColumn::column starting the text over with the column
PushColumn_column_Overwrites(command, arguments, column, alloc) ==
    LET n == Len(column) + 2 IN
    IF ~try_reserve(command, n, alloc)
    THEN Fail(command, arguments, OutOfMemory, <<>>, n)
    ELSE Outcome("PushColumn", column, arguments, NoError, <<>>, n)

PushColumn_column(command, arguments, column, alloc) ==
    LET n == Len(column) + 2 IN
    IF ~try_reserve(command, n, alloc)
    THEN Fail(command, arguments, OutOfMemory, <<>>, n)
    ELSE Outcome("PushColumn", (command \o ", ") \o column, arguments,
                 NoError, <<>>, n)

PushColumn_from_table(command, arguments, table, alloc) ==
    FromTable_from_table(command, arguments, table, alloc)

PushColumn_static_from_tables(command, arguments, tables, alloc) ==
    FromTable_static_from_tables(command, arguments, tables, alloc)

(***************************************************************************)
(* mod.rs: PushFromTable and PushWhereClause.                              *)
(***************************************************************************)
\* PushFromTable::from with a bare comma as separator
PushFromTable_from_BareComma(command, arguments, table, alloc) ==
    LET n == Len(table) + 2 IN
    IF ~try_reserve(command, n, alloc)
    THEN Fail(command, arguments, OutOfMemory, <<>>, n)
    ELSE Outcome("PushFromTable", (command \o ",") \o table, arguments,
                 NoError, <<>>, n)

PushFromTable_from(command, arguments, table, alloc) ==
    LET n == Len(table) + 2 IN
    IF ~try_reserve(command, n, alloc)
    THEN Fail(command, arguments, OutOfMemory, <<>>, n)
    ELSE Outcome("PushFromTable", (command \o ", ") \o table, arguments,
                 NoError, <<>>, n)

\* PushFromTable::where_clause writing the keyword of the clause
PushFromTable_where_clause_WritesKeyword(command, arguments) ==
    Outcome("PushWhereClause", command \o " WHERE", arguments, NoError, <<>>, 6)

PushFromTable_where_clause(command, arguments) ==
    Retag("PushWhereClause", command, arguments)

PushFromTable_end(command, arguments) ==
    Retag("SqlCommand", command, arguments)

PushWhereClause_end(command, arguments) ==
    Retag("SqlCommand", command, arguments)

(***************************************************************************)
(* Rendering.  display_sql_command!(Stage) gives a stage its text view,    *)
(* and the finished SqlCommand has one too: both take the value by shared  *)
(* reference and give the text of `command`.                               *)
(***************************************************************************)
\* a Display that takes the text out of the value it renders
Display_fmt_TakesCommand(command, arguments) ==
    [text |-> command, command |-> "", arguments |-> arguments]

Display_fmt(command, arguments) ==
    [text |-> command, command |-> command, arguments |-> arguments]

\* the stage types display_sql_command! is invoked for, and the SqlCommand
Displayable ==
    {"Select", "PushValue", "PushColumn", "FromTable", "PushFromTable",
     "PushWhereClause", "SqlCommand"}

\* the methods each stage type exposes (its impl block)
Methods(st) ==
    CASE st = "Select" ->
           {"column", "column_as", "columns", "static_columns", "value", "values"}
      [] st = "PushValue" -> {"value", "end"}
      [] st = "PushColumn" -> {"column", "from_table", "static_from_tables"}
      [] st = "FromTable" -> {"from_table", "static_from_tables", "end"}
      [] st = "PushFromTable" -> {"from", "where_clause", "end"}
      [] st = "PushWhereClause" -> {"end"}
      [] OTHER -> {}

(***************************************************************************)
(* columns.rs: the SelectColumn of the unmounted file.  Its public methods *)
(* push the separator or keyword unchecked and only then reserve.          *)
(***************************************************************************)
Columns_transition_column(command, arguments, column, alloc) ==
    LET n == Len(column) + 1 IN
    IF ~try_reserve(command, n, alloc)
    THEN Fail(command, arguments, OutOfMemory, <<>>, n)
    ELSE Outcome("SelectColumn", (command \o " ") \o column, arguments,
                 NoError, <<>>, n)

Columns_column(command, arguments, column, alloc, grow) ==
    IF ~grow THEN Aborted(command, arguments, <<>>, -1)
    ELSE Columns_transition_column(command \o ",", arguments, column, alloc)

Columns_transition_column_as(command, arguments, column, alias, alloc) ==
    LET n == Len(column) + Len(alias) + 5 IN
    IF ~try_reserve(command, n, alloc)
    THEN Fail(command, arguments, OutOfMemory, <<>>, n)
    ELSE Outcome("SelectColumn",
                 (((command \o " ") \o column) \o " AS ") \o alias,
                 arguments, NoError, <<>>, n)

Columns_column_as(command, arguments, column, alias, alloc, grow) ==
    IF ~grow THEN Aborted(command, arguments, <<>>, -1)
    ELSE Columns_transition_column_as(command \o ",", arguments, column,
                                      alias, alloc)

Columns_transition_static_columns(command, arguments, columns, alloc) ==
    LET n == Len(columns) + 1 IN
    IF ~try_reserve(command, n, alloc)
    THEN Fail(command, arguments, OutOfMemory, <<>>, n)
    ELSE Outcome("SelectColumn", (command \o " ") \o columns, arguments,
                 NoError, <<>>, n)

Columns_static_columns(command, arguments, columns, alloc, grow) ==
    IF ~grow THEN Aborted(command, arguments, <<>>, -1)
    ELSE Columns_transition_static_columns(command \o ",", arguments,
                                           columns, alloc)

\* FromTable::transition_from / transition_static_from are called by
\* columns.rs and defined nowhere in the sources: after the keyword, one
\* space and the table text, reserved first (as transition_column does).
FromTable_transition_from(command, arguments, table, alloc) ==
    LET n == Len(table) + 1 IN
    IF ~try_reserve(command, n, alloc)
    THEN Fail(command, arguments, OutOfMemory, <<>>, n)
    ELSE Outcome("FromTable", (command \o " ") \o table, arguments,
                 NoError, <<>>, n)

Columns_from(command, arguments, table, alloc, grow) ==
    IF ~grow THEN Aborted(command, arguments, <<>>, -1)
    ELSE FromTable_transition_from(command \o " FROM", arguments, table, alloc)

Columns_static_from(command, arguments, tables, alloc, grow) ==
    IF ~grow THEN Aborted(command, arguments, <<>>, -1)
    ELSE FromTable_transition_from(command \o " FROM", arguments, tables, alloc)

\* the methods of the columns.rs SelectColumn
ColumnsMethods ==
    {"column", "column_as", "static_columns", "from", "static_from"}

(***************************************************************************)
(* State of one builder chain.                                             *)
(***************************************************************************)
VARIABLES
    stage,      \* type of the value the caller holds; "Failed" after an Err,
                \* "Aborted" after a panic or abort, "SqlCommand" when finished
    command,    \* the String of that value (at the failure, once failed)
    arguments,  \* the argument collection
    err,        \* what the last call returned: NoError or the error
    keyword,    \* the text the constructor wrote
    args0,      \* the collection as the caller handed it to the constructor
    prev,       \* stage, command and arguments before the last call
    calls,      \* the calls of the chain so far, with their inputs
    written,    \* every number handed to format_u32_base10, in order
    reserved,   \* size the last call passed to try_reserve (-1: none)
    rendered    \* the texts the renderings of the finished command gave

vars == <<stage, command, arguments, err, keyword, args0, prev, calls,
          written, reserved, rendered>>

Constructors(args) == {Select_new(args), Select_all(args), Select_distinct(args)}

\* select(arguments), select_all(arguments), select_distinct(arguments): the
\* caller supplies the collection, whatever it already holds
Init ==
    \E k \in {0, 1, MaxInitArgs} :
      \E args \in [1..k -> EarlierValues] :
        \E out \in Constructors(args) :
          /\ stage = out.stage
          /\ command = out.command
          /\ arguments = out.arguments
          /\ err = out.err
          /\ keyword = out.command
          /\ args0 = args
          /\ prev = [stage |-> "None", command |-> "", arguments |-> <<>>]
          /\ calls = <<>>
          /\ written = <<>>
          /\ reserved = -1
          /\ rendered = <<>>

\* one call of the chain: the method, its text and value inputs, the error
\* the collection answered a push with ("-" when it rejected none) and the
\* position, among the values of the call, of the push it rejected (0: none)
CallAt(op, strs, vals, e, at) ==
    [op |-> op, strs |-> strs, vals |-> vals, e |-> e, at |-> at]

Call(op, strs, vals, e) == CallAt(op, strs, vals, e, IF e = "-" THEN 0 ELSE 1)

\* the caller holds a value of type st, whose impl block has method m
Holds(st, m) == stage = st /\ m \in Methods(st)

Rejection(push) == IF push = "ok" THEN "-" ELSE push

\* values(..): the push at rejectAt is made, and rejected with e, unless the
\* process aborted at an earlier element
ValuesRejection(rejectAt, e, abortAt) ==
    IF rejectAt = 0 \/ (abortAt # 0 /\ abortAt < rejectAt) THEN "-" ELSE e

\* the caller makes one call and holds what it returns
Apply(call, out) ==
    /\ Len(calls) < MaxCalls
    /\ stage' = out.stage
    /\ command' = out.command
    /\ arguments' = out.arguments
    /\ err' = out.err
    /\ written' = written \o out.written
    /\ reserved' = out.reserved
    /\ prev' = [stage |-> stage, command |-> command, arguments |-> arguments]
    /\ calls' = Append(calls, call)
    /\ UNCHANGED <<keyword, args0, rendered>>

PushOutcomes == {"ok"} \cup ArgErrors

(***************************************************************************)
(* The calls of the compiled chain (mod.rs).                               *)
(***************************************************************************)
Call_Select_column ==
    /\ Holds("Select", "column")
    /\ \E column \in ColumnNames, alloc \in BOOLEAN :
         Apply(Call("column", <<column>>, <<>>, "-"),
               Select_column(command, arguments, column, alloc))

Call_Select_column_as ==
    /\ Holds("Select", "column_as")
    /\ \E column \in ColumnNames, alias \in AliasNames, alloc \in BOOLEAN :
         Apply(Call("column_as", <<column, alias>>, <<>>, "-"),
               Select_column_as(command, arguments, column, alias, alloc))

Call_Select_columns ==
    /\ Holds("Select", "columns")
    /\ \E columns \in SeqsUpTo(ColumnNames, MaxSeqLen),
          alloc \in BOOLEAN, overflow_checks \in BOOLEAN :
         Apply(Call("columns", columns, <<>>, "-"),
               Select_columns(command, arguments, columns, alloc,
                              overflow_checks))

Call_Select_static_columns ==
    /\ Holds("Select", "static_columns")
    /\ \E columns \in ColumnFragments, alloc \in BOOLEAN, grow \in BOOLEAN :
         Apply(Call("static_columns", <<columns>>, <<>>, "-"),
               Select_static_columns(command, arguments, columns, alloc, grow))

Call_Select_value ==
    /\ Holds("Select", "value")
    /\ \E value \in Values, push \in PushOutcomes, grow \in BOOLEAN :
         Apply(Call("value", <<>>, <<value>>, Rejection(push)),
               Select_value(command, arguments, value, push, grow))

Call_Select_values ==
    /\ Holds("Select", "values")
    /\ \E values \in SeqsUpTo(Values, MaxSeqLen) :
         \E rejectAt \in 0..Len(values), e \in ArgErrors,
            abortAt \in 0..Len(values) :
           Apply(CallAt("values", <<>>, values,
                        ValuesRejection(rejectAt, e, abortAt),
                        IF ValuesRejection(rejectAt, e, abortAt) = "-"
                        THEN 0 ELSE rejectAt),
                 Select_values(command, arguments, values, rejectAt, e, abortAt))

Call_PushValue_value ==
    /\ Holds("PushValue", "value")
    /\ \E value \in Values, push \in PushOutcomes, grow \in BOOLEAN :
         Apply(Call("value", <<>>, <<value>>, Rejection(push)),
               PushValue_value(command, arguments, value, push, grow))

Call_PushValue_end ==
    /\ Holds("PushValue", "end")
    /\ Apply(Call("end", <<>>, <<>>, "-"), PushValue_end(command, arguments))

Call_PushColumn_column ==
    /\ Holds("PushColumn", "column")
    /\ \E column \in ColumnNames, alloc \in BOOLEAN :
         Apply(Call("column", <<column>>, <<>>, "-"),
               PushColumn_column(command, arguments, column, alloc))

Call_PushColumn_from_table ==
    /\ Holds("PushColumn", "from_table")
    /\ \E table \in TableNames, alloc \in BOOLEAN :
         Apply(Call("from_table", <<table>>, <<>>, "-"),
               PushColumn_from_table(command, arguments, table, alloc))

Call_PushColumn_static_from_tables ==
    /\ Holds("PushColumn", "static_from_tables")
    /\ \E tables \in TableFragments, alloc \in BOOLEAN :
         Apply(Call("static_from_tables", <<tables>>, <<>>, "-"),
               PushColumn_static_from_tables(command, arguments, tables, alloc))

Call_FromTable_from_table ==
    /\ Holds("FromTable", "from_table")
    /\ \E table \in TableNames, alloc \in BOOLEAN :
         Apply(Call("from_table", <<table>>, <<>>, "-"),
               FromTable_from_table(command, arguments, table, alloc))

Call_FromTable_static_from_tables ==
    /\ Holds("FromTable", "static_from_tables")
    /\ \E tables \in TableFragments, alloc \in BOOLEAN :
         Apply(Call("static_from_tables", <<tables>>, <<>>, "-"),
               FromTable_static_from_tables(command, arguments, tables, alloc))

Call_FromTable_end ==
    /\ Holds("FromTable", "end")
    /\ Apply(Call("end", <<>>, <<>>, "-"), FromTable_end(command, arguments))

Call_PushFromTable_from ==
    /\ Holds("PushFromTable", "from")
    /\ \E table \in TableNames, alloc \in BOOLEAN :
         Apply(Call("from", <<table>>, <<>>, "-"),
               PushFromTable_from(command, arguments, table, alloc))

Call_PushFromTable_where_clause ==
    /\ Holds("PushFromTable", "where_clause")
    /\ Apply(Call("where_clause", <<>>, <<>>, "-"),
             PushFromTable_where_clause(command, arguments))

Call_PushFromTable_end ==
    /\ Holds("PushFromTable", "end")
    /\ Apply(Call("end", <<>>, <<>>, "-"), PushFromTable_end(command, arguments))

Call_PushWhereClause_end ==
    /\ Holds("PushWhereClause", "end")
    /\ Apply(Call("end", <<>>, <<>>, "-"), PushWhereClause_end(command, arguments))

\* the caller renders the finished command
Call_Render ==
    /\ stage = "SqlCommand"
    /\ stage \in Displayable
    /\ Len(rendered) < MaxRenders
    /\ LET out == Display_fmt(command, arguments)
       IN  /\ rendered' = Append(rendered, [text |-> out.text,
                                             command |-> command,
                                             arguments |-> arguments])
           /\ command' = out.command
           /\ arguments' = out.arguments
    /\ UNCHANGED <<stage, err, keyword, args0, prev, calls, written, reserved>>

Next ==
    \/ Call_Select_column
    \/ Call_Select_column_as
    \/ Call_Select_columns
    \/ Call_Select_static_columns
    \/ Call_Select_value
    \/ Call_Select_values
    \/ Call_PushValue_value
    \/ Call_PushValue_end
    \/ Call_PushColumn_column
    \/ Call_PushColumn_from_table
    \/ Call_PushColumn_static_from_tables
    \/ Call_FromTable_from_table
    \/ Call_FromTable_static_from_tables
    \/ Call_FromTable_end
    \/ Call_PushFromTable_from
    \/ Call_PushFromTable_where_clause
    \/ Call_PushFromTable_end
    \/ Call_PushWhereClause_end
    \/ Call_Render

Spec == Init /\ [][Next]_vars

(***************************************************************************)
(* The chain through the columns.rs SelectColumn.  Its pub(super)          *)
(* transition_* methods are the way in: the parent module maps the Select  *)
(* into a SelectColumn and writes the first column through them ("begin    *)
(* column list"); the public methods add the later columns and the FROM.   *)
(***************************************************************************)
Call_Begin_column ==
    /\ stage = "Select"
    /\ \E column \in ColumnNames, alloc \in BOOLEAN :
         Apply(Call("transition_column", <<column>>, <<>>, "-"),
               Columns_transition_column(command, arguments, column, alloc))

Call_Begin_column_as ==
    /\ stage = "Select"
    /\ \E column \in ColumnNames, alias \in AliasNames, alloc \in BOOLEAN :
         Apply(Call("transition_column_as", <<column, alias>>, <<>>, "-"),
               Columns_transition_column_as(command, arguments, column, alias,
                                            alloc))

Call_Begin_static_columns ==
    /\ stage = "Select"
    /\ \E columns \in ColumnFragments, alloc \in BOOLEAN :
         Apply(Call("transition_static_columns", <<columns>>, <<>>, "-"),
               Columns_transition_static_columns(command, arguments, columns,
                                                 alloc))

Call_Columns_column ==
    /\ stage = "SelectColumn" /\ "column" \in ColumnsMethods
    /\ \E column \in ColumnNames, alloc \in BOOLEAN, grow \in BOOLEAN :
         Apply(Call("column", <<column>>, <<>>, "-"),
               Columns_column(command, arguments, column, alloc, grow))

Call_Columns_column_as ==
    /\ stage = "SelectColumn" /\ "column_as" \in ColumnsMethods
    /\ \E column \in ColumnNames, alias \in AliasNames,
          alloc \in BOOLEAN, grow \in BOOLEAN :
         Apply(Call("column_as", <<column, alias>>, <<>>, "-"),
               Columns_column_as(command, arguments, column, alias, alloc, grow))

Call_Columns_static_columns ==
    /\ stage = "SelectColumn" /\ "static_columns" \in ColumnsMethods
    /\ \E columns \in ColumnFragments, alloc \in BOOLEAN, grow \in BOOLEAN :
         Apply(Call("static_columns", <<columns>>, <<>>, "-"),
               Columns_static_columns(command, arguments, columns, alloc, grow))

Call_Columns_from ==
    /\ stage = "SelectColumn" /\ "from" \in ColumnsMethods
    /\ \E table \in TableNames, alloc \in BOOLEAN, grow \in BOOLEAN :
         Apply(Call("from", <<table>>, <<>>, "-"),
               Columns_from(command, arguments, table, alloc, grow))

Call_Columns_static_from ==
    /\ stage = "SelectColumn" /\ "static_from" \in ColumnsMethods
    /\ \E tables \in TableFragments, alloc \in BOOLEAN, grow \in BOOLEAN :
         Apply(Call("static_from", <<tables>>, <<>>, "-"),
               Columns_static_from(command, arguments, tables, alloc, grow))

NextColumns ==
    \/ Call_Begin_column
    \/ Call_Begin_column_as
    \/ Call_Begin_static_columns
    \/ Call_Columns_column
    \/ Call_Columns_column_as
    \/ Call_Columns_static_columns
    \/ Call_Columns_from
    \/ Call_Columns_static_from
    \/ Call_FromTable_from_table
    \/ Call_FromTable_static_from_tables
    \/ Call_FromTable_end
    \/ Call_PushFromTable_from
    \/ Call_PushFromTable_where_clause
    \/ Call_PushFromTable_end
    \/ Call_PushWhereClause_end

SpecColumns == Init /\ [][NextColumns]_vars

(***************************************************************************)
(* Vocabulary of the properties.                                           *)
(***************************************************************************)
Last(q) == q[Len(q)]

\* number of "$" characters in a text (no caller input of the model has one)
RECURSIVE CountDollar(_)
CountDollar(text) ==
    IF text = "" THEN 0
    ELSE (IF SubSeq(text, 1, 1) = "$" THEN 1 ELSE 0)
         + CountDollar(SubSeq(text, 2, Len(text)))

\* " $n1, $n2, ..." for the numbers of q (q non-empty)
RECURSIVE PlaceholderList(_)
PlaceholderList(q) ==
    IF Len(q) = 1 THEN " $" \o format_u32_base10(q[1])
    ELSE (PlaceholderList(SubSeq(q, 1, Len(q) - 1)) \o ", $")
         \o format_u32_base10(Last(q))

\* the elements of q joined by ", " (q non-empty)
RECURSIVE JoinComma(_)
JoinComma(q) ==
    IF Len(q) = 1 THEN q[1]
    ELSE (JoinComma(SubSeq(q, 1, Len(q) - 1)) \o ", ") \o Last(q)

\* text t occurs in text s
Contains(s, t) ==
    \E i \in 1..(Len(s) - Len(t) + 1) : SubSeq(s, i, i + Len(t) - 1) = t

\* the values the calls of the chain handed over, in order
RECURSIVE ValuesOf(_)
ValuesOf(cs) ==
    IF cs = <<>> THEN <<>> ELSE Head(cs).vals \o ValuesOf(Tail(cs))

\* the chain is on the value track: it began with value(..) or values(..)
ValueTrack == calls # <<>> /\ calls[1].op \in {"value", "values"}

\* the last call bound a value and returned Ok
BoundOk ==
    /\ calls # <<>>
    /\ Last(calls).op \in {"value", "values"}
    /\ err = NoError

C2_ValuesRenderInOrder ==
    (stage = "SqlCommand" /\ ValueTrack /\ args0 = <<>>) =>
        LET bound == ValuesOf(calls)
            N == Len(bound)
        IN  /\ N >= 1
            /\ command = keyword \o PlaceholderList([i \in 1..N |-> i])
            /\ arguments = bound
            /\ ArgCount(arguments) = N

C2_Witness ==
    /\ stage = "SqlCommand"
    /\ Len(calls) = 3
    /\ calls[1].op = "value"
    /\ command = "SELECT $1, $2"
    /\ arguments = <<42, 7>>

(***************************************************************************)
(* C3: columns(seq) with the empty sequence fails with ArgumentNotFound    *)
(* (not OutOfMemory, not an abort) and leaves the command buffer and the   *)
(* argument collection as they were before the call.                       *)
(***************************************************************************)
C3_EmptyColumnsArgumentNotFound ==
    (calls # <<>> /\ Last(calls).op = "columns" /\ Last(calls).strs = <<>>) =>
        /\ stage = "Failed"
        /\ err = ArgumentNotFound
        /\ command = prev.command
        /\ arguments = prev.arguments

(***************************************************************************)
(* C4: when the capacity reservation of a text-appending transition fails, *)
(* the transition returns OutOfMemory and the buffer text at the failure   *)
(* is the text from before the call: no separator, keyword or partial      *)
(* fragment was appended ahead of the failing reservation.                 *)
(***************************************************************************)
C4_ReservationFailureLeavesText ==
    (calls # <<>> /\ reserved >= 0 /\ stage = "Failed") =>
        /\ err = OutOfMemory
        /\ command = prev.command

(***************************************************************************)
(* C5: for every non-empty sequence seq of column names, columns(seq) from *)
(* the start stage succeeds when the reservation succeeds and yields       *)
(* `<keyword> seq[0], seq[1], ..., seq[n-1]`: input order, ", " only       *)
(* between consecutive elements, nothing before the first or after the     *)
(* last.                                                                   *)
(***************************************************************************)
C5_ColumnsRenderInOrder ==
    (/\ calls # <<>>
     /\ Last(calls).op = "columns"
     /\ Last(calls).strs # <<>>
     /\ err # OutOfMemory) =>
        /\ prev.stage = "Select"
        /\ stage = "PushColumn"
        /\ err = NoError
        /\ command = (keyword \o " ") \o JoinComma(Last(calls).strs)

C5_Witness ==
    /\ calls # <<>>
    /\ Last(calls).op = "columns"
    /\ Last(calls).strs = <<"x", "yz", "x">>
    /\ command = "SELECT DISTINCT x, yz, x"

(***************************************************************************)
(* C6.  The chain is on the column track when it began with a column       *)
(* method; a text has a FROM clause when " FROM " occurs in it with text   *)
(* after it.                                                               *)
(***************************************************************************)
ColumnTrack ==
    /\ calls # <<>>
    /\ calls[1].op \in {"column", "column_as", "columns", "static_columns"}

HasFromClause(text) ==
    \E i \in 1..(Len(text) - 6) : SubSeq(text, i, i + 5) = " FROM "

C7_RejectedPushPropagates ==
    (calls # <<>> /\ Last(calls).e # "-") =>
        /\ stage = "Failed"
        /\ err = Argument(Last(calls).e)
        /\ CountDollar(command) = Len(written)
        /\ Len(written) = ArgCount(arguments) - ArgCount(args0)
        /\ Last(calls).op = "value" =>
             command = prev.command /\ arguments = prev.arguments

C7_Witness ==
    /\ Len(calls) = 2
    /\ calls[2].op = "value"
    /\ err = Argument("Denied")
    /\ command = "SELECT $1"

(***************************************************************************)
(* C8 (as stated): in every reachable state of a chain the number of `$N`  *)
(* placeholders in the buffer equals the collection's count(), and the     *)
(* first placeholder written is $1 (the collection being empty when the    *)
(* builder is created).                                                    *)
(***************************************************************************)
C8_PlaceholdersEqualCount ==
    err # Abort =>
        /\ CountDollar(command) = ArgCount(arguments)
        /\ written # <<>> => written[1] = 1

(***************************************************************************)
(* C8 (amended): in every reachable state of a chain the number of `$N`    *)
(* placeholders in the buffer equals count() minus the count the           *)
(* collection had when it was handed to the constructor, and the first     *)
(* placeholder written is that initial count plus 1 ($1 when the           *)
(* collection was handed over empty); the collection keeps what it held    *)
(* and grows by one entry per accepted value.                              *)
(***************************************************************************)
C8_PlaceholdersEqualGrowth ==
    err # Abort =>
        /\ CountDollar(command) = ArgCount(arguments) - ArgCount(args0)
        /\ written # <<>> => written[1] = ArgCount(args0) + 1
        /\ Len(written) = CountDollar(command)
        /\ SubSeq(arguments, 1, Len(args0)) = args0
        /\ calls # <<>> => ArgCount(arguments) >= ArgCount(prev.arguments)

C8_Witness ==
    /\ ArgCount(args0) = 1
    /\ stage = "PushValue"
    /\ command = "SELECT $2, $3"

(***************************************************************************)
(* C9.  The chain used only the single-element list operations (and        *)
(* columns(..), where_clause, end), and every call returned Ok.            *)
(***************************************************************************)
ListOps == {"column", "columns", "from_table", "from", "where_clause", "end"}

ListChain ==
    /\ \A i \in 1..Len(calls) : calls[i].op \in ListOps
    /\ stage \notin {"Failed", "Aborted"}

\* the text inputs of the calls whose method is in ops, in call order
RECURSIVE StrsOf(_, _)
StrsOf(cs, ops) ==
    IF cs = <<>> THEN <<>>
    ELSE (IF Head(cs).op \in ops THEN Head(cs).strs ELSE <<>>)
         \o StrsOf(Tail(cs), ops)

(***************************************************************************)
(* C9: in every list written by chained single-element operations the      *)
(* first element has no leading ", " and every later element is preceded   *)
(* by exactly ", ": the text is `<keyword> c1, c2, ...` followed, once a    *)
(* table is written, by ` FROM t1, t2, ...`.                               *)
(***************************************************************************)
C9_ListSeparators ==
    (calls # <<>> /\ ListChain) =>
        LET cols == StrsOf(calls, {"column", "columns"})
            tabs == StrsOf(calls, {"from_table", "from"})
        IN  /\ cols # <<>>
            /\ command = ((keyword \o " ") \o JoinComma(cols))
                           \o (IF tabs = <<>> THEN ""
                               ELSE " FROM " \o JoinComma(tabs))

C9_Witness ==
    /\ stage = "SqlCommand"
    /\ Len(calls) = 4
    /\ calls[1].op = "columns"
    /\ calls[3].op = "from"
    /\ command = "SELECT x, yz FROM t, u"

(***************************************************************************)
(* C10: an aliased column is written `<column> AS <alias>` with single     *)
(* spaces, as first column and as a later column, and the chain            *)
(* column(a).column_as(b, c).from(t).end() is legal: the stage column(a)   *)
(* returns has column_as, the stage column_as returns has from, and the    *)
(* stage from returns has end.                                             *)
(***************************************************************************)
C10_AliasChainLegal ==
    /\ (calls # <<>> /\ Last(calls).op = "column_as" /\ err = NoError) =>
         \E sep \in {" ", ", "} :
           command = (((prev.command \o sep) \o Last(calls).strs[1]) \o " AS ")
                       \o Last(calls).strs[2]
    /\ (Len(calls) = 1 /\ calls[1].op = "column" /\ err = NoError) =>
         "column_as" \in Methods(stage)
    /\ (Len(calls) = 2 /\ calls[2].op = "column_as" /\ err = NoError) =>
         "from" \in Methods(stage)
    /\ (Len(calls) = 3 /\ calls[3].op = "from" /\ err = NoError) =>
         "end" \in Methods(stage)

(***************************************************************************)
(* C11: values(seq) with an empty sequence fails with ArgumentNotFound     *)
(* before any push and before any text is appended (count and text         *)
(* unchanged), and no terminal command is a keyword with an empty value    *)
(* list.                                                                   *)
(***************************************************************************)
C11_EmptyValuesArgumentNotFound ==
    /\ (calls # <<>> /\ Last(calls).op = "values" /\ Last(calls).vals = <<>>) =>
         /\ stage = "Failed"
         /\ err = ArgumentNotFound
         /\ command = prev.command
         /\ arguments = prev.arguments
         /\ ArgCount(arguments) = ArgCount(args0)
         /\ written = <<>>
    /\ stage = "SqlCommand" =>
         /\ command # keyword
         /\ ValueTrack => CountDollar(command) >= 1

C11_Witness ==
    /\ calls # <<>>
    /\ Last(calls).op = "values"
    /\ Last(calls).vals = <<>>
    /\ err = ArgumentNotFound
    /\ ArgCount(arguments) = 1

\* number of places where text t occurs in text s
CountOccurrences(s, t) ==
    Cardinality({i \in 1..(Len(s) - Len(t) + 1) :
                   SubSeq(s, i, i + Len(t) - 1) = t})

\* the chain began with static_columns(..), which returned Ok
StaticColumnsFirst ==
    /\ calls # <<>>
    /\ calls[1].op = "static_columns"
    /\ Len(calls) = 1 => err = NoError

(***************************************************************************)
(* C12 (as stated): installing a static column fragment from the start     *)
(* stage moves to FromTable, appends the fragment verbatim and writes the  *)
(* FROM keyword; the following table operation yields                     *)
(* `<keyword> <fragment> FROM <table>` with exactly one FROM.              *)
(***************************************************************************)
C12_StaticColumnsWritesFrom ==
    /\ (StaticColumnsFirst /\ Len(calls) = 1) =>
         /\ stage = "FromTable"
         /\ command = ((keyword \o " ") \o calls[1].strs[1]) \o " FROM"
    /\ (/\ StaticColumnsFirst
        /\ Len(calls) = 2
        /\ calls[2].op \in {"from_table", "static_from_tables"}
        /\ err = NoError) =>
         /\ command = (((keyword \o " ") \o calls[1].strs[1]) \o " FROM ")
                        \o calls[2].strs[1]
         /\ CountOccurrences(command, "FROM") = 1

(***************************************************************************)
(* C12 (amended): installing a static column fragment from the start stage *)
(* moves to FromTable and appends one space and the fragment verbatim,     *)
(* writing no FROM keyword itself; the following table operation writes    *)
(* ` FROM ` and the table, which yields `<keyword> <fragment> FROM <table>`*)
(* with exactly one FROM.                                                  *)
(***************************************************************************)
C12_StaticColumnsThenFrom ==
    /\ (StaticColumnsFirst /\ Len(calls) = 1) =>
         /\ stage = "FromTable"
         /\ command = (keyword \o " ") \o calls[1].strs[1]
         /\ CountOccurrences(command, "FROM") = 0
    /\ (/\ StaticColumnsFirst
        /\ Len(calls) = 2
        /\ calls[2].op \in {"from_table", "static_from_tables"}
        /\ err = NoError) =>
         /\ stage = "PushFromTable"
         /\ command = (((keyword \o " ") \o calls[1].strs[1]) \o " FROM ")
                        \o calls[2].strs[1]
         /\ CountOccurrences(command, "FROM") = 1

C12_Witness ==
    /\ Len(calls) = 2
    /\ calls[1].op = "static_columns"
    /\ calls[2].op = "from_table"
    /\ command = "SELECT p, q FROM t"

(***************************************************************************)
(* C13: a chain ends in exactly one of two ways, the terminal command or   *)
(* the first failing transition with its error returned; a value with no   *)
(* builder transition left is one of the two.                              *)
(***************************************************************************)
C13_TwoEndings ==
    /\ Methods(stage) = {} => stage \in {"SqlCommand", "Failed"}
    /\ stage = "SqlCommand" => err = NoError
    /\ stage = "Failed" =>
         err.kind \in {"OutOfMemory", "ArgumentNotFound", "Argument"}
    /\ err # NoError => stage = "Failed"

AppendedText ==
    /\ calls # <<>>
    /\ err = NoError
    /\ Len(command) > Len(prev.command)

(***************************************************************************)
(* C15: every transition that appends text first performs a fallible       *)
(* reservation whose size is exactly the number of bytes it then appends,  *)
(* the value-binding and static-fragment transitions included.             *)
(***************************************************************************)
C15_ReservationEqualsAppended ==
    AppendedText => reserved = Len(command) - Len(prev.command)

\* text p is the beginning of text s
IsPrefix(p, s) == Len(p) <= Len(s) /\ SubSeq(s, 1, Len(p)) = p

(***************************************************************************)
(* C16: the text is append-only: after every successful transition the     *)
(* text before it is a prefix of the text after it, and every reachable    *)
(* text starts with the initial keyword.                                   *)
(***************************************************************************)
C16_AppendOnly ==
    /\ keyword \in Keywords
    /\ IsPrefix(keyword, command)
    /\ (calls # <<>> /\ err = NoError) => IsPrefix(prev.command, command)
    /\ calls # <<>> => IsPrefix(keyword, prev.command)

C16_Witness ==
    /\ keyword = "SELECT DISTINCT"
    /\ Len(calls) = 4
    /\ err = NoError
    /\ prev.command = "SELECT DISTINCT x, yz FROM t"
    /\ command = "SELECT DISTINCT x, yz FROM t, u"

\* operations of the column track that write text
TextOps ==
    {"column", "column_as", "columns", "static_columns", "from_table",
     "static_from_tables", "from"}

\* operations that only change the stage
StageOps == {"end", "where_clause"}

(***************************************************************************)
(* C17: the column, table, FROM and static-fragment transitions leave the  *)
(* argument collection unchanged; end and where_clause leave both the text *)
(* and the collection unchanged.                                           *)
(***************************************************************************)
C17_CollectionUntouched ==
    /\ (calls # <<>> /\ Last(calls).op \in TextOps) =>
         arguments = prev.arguments
    /\ (calls # <<>> /\ Last(calls).op \in StageOps) =>
         /\ command = prev.command
         /\ arguments = prev.arguments
         /\ err = NoError
    /\ (\A i \in 1..Len(calls) : calls[i].op \in TextOps \cup StageOps) =>
         arguments = args0

C17_Witness ==
    /\ Len(calls) = 4
    /\ calls[1].op = "column_as"
    /\ calls[2].op = "static_from_tables"
    /\ calls[3].op = "where_clause"
    /\ calls[4].op = "end"
    /\ ArgCount(arguments) = MaxInitArgs
    /\ stage = "SqlCommand"

\* text s ends with text t
EndsWith(s, t) ==
    Len(t) <= Len(s) /\ SubSeq(s, Len(s) - Len(t) + 1, Len(s)) = t

\* the keywords the builder writes in front of a clause element
ClauseKeywords == {"SELECT", "ALL", "DISTINCT", "FROM", "AS"}

\* the text ends in a keyword with no clause element after it
DanglingKeyword(text) ==
    \E k \in ClauseKeywords : text = k \/ EndsWith(text, " " \o k)

(***************************************************************************)
(* C18 (as stated): at every stage value a caller can hold or render, the  *)
(* text never ends in a keyword with no following clause element (no       *)
(* SELECT with no column or value after it, no FROM with no table).        *)
(***************************************************************************)
C18_NoDanglingKeyword ==
    stage \in Displayable => ~DanglingKeyword(command)

(***************************************************************************)
(* C18 (amended): the start stage holds, and renders, the bare initial     *)
(* keyword; every stage value returned by a transition (with non-empty     *)
(* names and fragments) holds a text that does not end in a keyword with   *)
(* no following clause element.                                            *)
(***************************************************************************)
C18_NoDanglingKeywordAfterFirst ==
    /\ calls = <<>> =>
         (stage = "Select" /\ command = keyword /\ DanglingKeyword(command))
    /\ (calls # <<>> /\ stage \in Displayable) => ~DanglingKeyword(command)
    /\ stage = "Select" <=> calls = <<>>

C18_Witness ==
    /\ Len(calls) = 1
    /\ Last(calls).op = "column_as"
    /\ stage = "PushColumn"
    /\ command = "SELECT ALL yz AS c"

\* The chain value(seq[1]).value(seq[2])...value(seq[n]).end() run on out,
\* the value held before element i; the collection rejects element rejectAt
\* with e (0: it accepts all), and the chain stops at the first Err.
RECURSIVE ValueChain(_, _, _, _, _)
ValueChain(out, rest, i, rejectAt, e) ==
    IF out.stage \notin {"Select", "PushValue"} THEN out
    ELSE IF rest = <<>> THEN PushValue_end(out.command, out.arguments)
    ELSE LET push == IF i = rejectAt THEN e ELSE "ok"
             step == IF i = 1
                     THEN Select_value(out.command, out.arguments, Head(rest),
                                       push, TRUE)
                     ELSE PushValue_value(out.command, out.arguments,
                                          Head(rest), push, TRUE)
         IN  ValueChain(step, Tail(rest), i + 1, rejectAt, e)

\* the last call was values(seq) with a non-empty seq, and it returned
ValuesReturned ==
    /\ calls # <<>>
    /\ Last(calls).op = "values"
    /\ Last(calls).vals # <<>>
    /\ stage # "Aborted"

(***************************************************************************)
(* C19: for a non-empty seq, values(seq) is equivalent to the chain        *)
(* value(seq[0]).value(seq[1])...value(seq[n-1]).end(): the same terminal  *)
(* text and collection when every push succeeds, the same Argument(e) at   *)
(* the same element when a push is rejected.                               *)
(***************************************************************************)
C19_ValuesEqualsValueChain ==
    ValuesReturned =>
        LET c == Last(calls)
            chain == ValueChain(Retag("Select", prev.command, prev.arguments),
                                c.vals, 1, c.at, c.e)
        IN  /\ stage = chain.stage
            /\ command = chain.command
            /\ arguments = chain.arguments
            /\ err = chain.err
            /\ c.at = 0 <=> stage = "SqlCommand"

C19_Witness ==
    /\ ValuesReturned
    /\ Last(calls).vals = <<42, 7, 42>>
    /\ stage = "SqlCommand"
    /\ command = "SELECT $2, $3, $4"
    /\ arguments = <<99, 42, 7, 42>>

(***************************************************************************)
(* C20: when values(seq) fails because the collection rejects the k-th     *)
(* element, exactly the first k-1 elements have been pushed and exactly    *)
(* k-1 placeholders written; the earlier pushes are not rolled back.       *)
(***************************************************************************)
C20_RejectedValuesKeepEarlierPushes ==
    (calls # <<>> /\ Last(calls).op = "values" /\ err.kind = "Argument") =>
        LET c == Last(calls)
            k == c.at
            n == ArgCount(prev.arguments)
        IN  /\ k \in 1..Len(c.vals)
            /\ err = Argument(c.e)
            /\ arguments = prev.arguments \o SubSeq(c.vals, 1, k - 1)
            /\ ArgCount(arguments) = n + (k - 1)
            /\ written = [i \in 1..(k - 1) |-> n + i]
            /\ CountDollar(command) = k - 1
            /\ command = IF k = 1 THEN prev.command
                         ELSE prev.command \o PlaceholderList(written)

C20_Witness ==
    /\ calls # <<>>
    /\ Last(calls).op = "values"
    /\ Last(calls).at = 3
    /\ err = Argument("Denied")
    /\ arguments = <<99, 7, 42>>
    /\ command = "SELECT DISTINCT $2, $3"

\* operations that bind a value
ValueOps == {"value", "values"}

\* some call of the chain was one of ops
Called(ops) == \E i \in 1..Len(calls) : calls[i].op \in ops

(***************************************************************************)
(* C21: the value track and the column track are mutually exclusive within *)
(* one chain: after a value is bound no column, FROM, table or WHERE        *)
(* transition is enabled, after a column or fragment is written no         *)
(* value-binding transition is enabled, and no reachable text holds both a *)
(* `$N` placeholder and a column or FROM clause written by the builder.    *)
(***************************************************************************)
C21_TracksExclusive ==
    LET bound == Called(ValueOps)
        wrote == Called(TextOps)
    IN  /\ ~(bound /\ wrote)
        /\ bound =>
             /\ Methods(stage) \cap (TextOps \cup {"where_clause"}) = {}
             /\ \A i \in 1..Len(calls) : calls[i].op \in ValueOps \cup {"end"}
        /\ wrote =>
             /\ Methods(stage) \cap ValueOps = {}
             /\ \A i \in 1..Len(calls) : calls[i].op \in TextOps \cup StageOps
             /\ written = <<>>
             /\ ~Contains(command, "$")
        /\ Contains(command, "$") =>
             /\ ~HasFromClause(command)
             /\ command = keyword \o PlaceholderList(written)

C21_Witness ==
    /\ Len(calls) = 2
    /\ calls[1].op = "value"
    /\ calls[2].op = "value"
    /\ stage = "PushValue"
    /\ Methods(stage) = {"value", "end"}
    /\ command = "SELECT $1, $2"

====
